---- MODULE Spec2Model ----
(***************************************************************************)
(* The menu / command-dispatch loop of the cryptocurrency menu             *)
(* (crypto_controller.py) and of its due-diligence sub-menu                *)
(* (dd_controller.py), with the `load` resolution of                       *)
(* cryptocurrency/__init__.py.                                             *)
(*                                                                         *)
(* Python values are written as strings: None is "None", the booleans are  *)
(* "False" and "True", an exception is the name of its class.  A tuple or  *)
(* a list is a sequence.                                                   *)
(***************************************************************************)
EXTENDS Naturals, Sequences, FiniteSets, TLC

VARIABLES
    stack,              \* the menu() calls that are active, outermost first
    crypto_controller,  \* the CryptoController of crypto_controller.menu
    controller,         \* the Controller of dd_controller.menu
    CHOICES,            \* dd_controller.Controller.CHOICES, a class attribute
    pending,            \* a sub-menu's return value the crypto handler has not
                        \* yet processed, with the sub-menu's name
    outcome,            \* how the outermost menu() call stands or ended
    last,               \* what the last input line did (observation only)
    expected,           \* the last successful load not followed by a clear
    inputs,             \* number of input lines read
    calls,              \* number of menu() calls made by the caller
    view                \* the table handed to a coinpaprika table command and
                        \* what the command printed of it

vars == << stack, crypto_controller, controller, CHOICES, pending, outcome,
           last, expected, inputs, calls, view >>

---------------------------------------------------------------------------
(* Bounds *)

MaxInputs == 3

MaxCalls == 2
\* rows of the table a provider returns
MaxRows == 3

---------------------------------------------------------------------------
(* Python values *)

None == "None"

Truthy(v) == v \notin {"", "None", "False"}

Range(s) == { s[i] : i \in 1..Len(s) }

\* pd.DataFrame() and a DataFrame with rows
DF_EMPTY == "DataFrame()"

DF_DATA == "DataFrame(rows)"

---------------------------------------------------------------------------
(* Command tables *)

CryptoCHOICES ==
    { "?", "cls", "help", "q", "quit", "finbrain", "ta", "load", "clear",
      "chart", "dd", "ov", "disc" }

\* the methods call_<token> that CryptoController defines
CryptoHandlers ==
    { "help", "q", "quit", "load", "chart", "ta", "clear", "disc", "ov",
      "finbrain", "dd" }

BASE_CHOICES == { "?", "cls", "help", "q", "quit", "finbrain" }

PAPRIKA_CHOICES == { "events", "twitter", "ex", "mkt", "ta", "ps", "basic" }

GECKO_CHOICES ==
    { "info", "market", "ath", "atl", "score", "web", "social", "bc", "dev" }

BINANCE_CHOICES == { "book", "candle", "balance" }

\* the methods call_<token> that dd_controller.Controller defines
DdHandlers ==
    { "help", "q", "quit", "info", "market", "web", "social", "dev", "ath",
      "atl", "score", "bc", "book", "balance", "ps", "basic", "mkt", "ex",
      "events", "twitter", "finbrain" }

Sources == { "cg", "cp", "bin" }

---------------------------------------------------------------------------
(* Input lines.  A line is its raw emptiness and its whitespace-split      *)
(* tokens; a token "starts with a dash" when it is one of DashTokens.      *)

DashTokens == { "-c", "--coin", "--source", "-h", "--help", "-x" }

IsDash(t) == t \in DashTokens

KnownCoins == { "btc", "eth" }

\* identifiers typed by the user; "zzz" matches nothing at any provider
Identifiers == KnownCoins \cup { "zzz" }

LoadArgs ==
    { <<>>, <<"-h">>, <<"-c">>, <<"-x", "btc">>, <<"--source", "cp">>,
      <<"btc", "--source", "xx">>, <<"--source", "cp", "--coin", "btc">> }
    \cup { <<i>> : i \in Identifiers }
    \cup { <<"-c", i>> : i \in Identifiers }
    \cup { <<i, "--source", s>> : i \in Identifiers, s \in Sources }

\* arguments of chart and ta: a flag the command knows, a flag it does not
ViewArgs == { <<"--vs", "btc">>, <<"-x">> }

CommandTokens ==
    CryptoCHOICES \cup BASE_CHOICES \cup PAPRIKA_CHOICES \cup GECKO_CHOICES
    \cup BINANCE_CHOICES \cup { "foo" }

Line(raw_empty, toks) == [ empty |-> raw_empty, toks |-> toks ]

Lines ==
    { Line(TRUE, <<>>), Line(FALSE, <<>>) }
    \cup { Line(FALSE, <<c>>) : c \in CommandTokens }
    \cup { Line(FALSE, <<c>> \o a) : c \in {"chart", "ta"}, a \in ViewArgs }
    \cup { Line(FALSE, <<"load">> \o a) : a \in LoadArgs }
    \cup { Line(FALSE, <<"-x", c>>) : c \in {"help", "q", "foo"} }

---------------------------------------------------------------------------
(* argparse: the menu parser, one positional `cmd` with choices            *)

RECURSIVE FirstPositional(_, _)
\* index of the first token that does not start with a dash, 0 if none
FirstPositional(toks, i) ==
    IF i > Len(toks) THEN 0
    ELSE IF ~IsDash(toks[i]) THEN i
    ELSE FirstPositional(toks, i + 1)

Without(toks, k) ==
    [ i \in 1..(Len(toks) - 1) |-> IF i < k THEN toks[i] ELSE toks[i + 1] ]

\* parser.parse_known_args(an_input.split()): the command and the other
\* arguments, or SystemExit when the command is missing or not a choice
parse_known_args(toks, choices) ==
    LET k == FirstPositional(toks, 1)
    IN  IF k = 0 \/ toks[k] \notin choices
        THEN [ exit |-> TRUE, cmd |-> "", other_args |-> <<>> ]
        ELSE [ exit |-> FALSE, cmd |-> toks[k], other_args |-> Without(toks, k) ]

---------------------------------------------------------------------------
(* argparse: the option parsers of `load`                                  *)

NoArgs == [ error |-> FALSE, help |-> FALSE, coin |-> None, source |-> "cg" ]

RECURSIVE ScanArgs(_, _, _, _)
\* -c/--coin VALUE, --source VALUE (a choice, only when the parser declares
\* it), -h/--help; every other token is left among the unknown arguments
ScanArgs(args, i, acc, has_source) ==
    IF i > Len(args) THEN acc
    ELSE
        LET t == args[i]
            has_value == i < Len(args) /\ ~IsDash(args[i + 1])
        IN  IF t \in {"-c", "--coin"}
            THEN IF has_value
                 THEN ScanArgs(args, i + 2, [acc EXCEPT !.coin = args[i + 1]], has_source)
                 ELSE [acc EXCEPT !.error = TRUE]
            ELSE IF t = "--source" /\ has_source
            THEN IF has_value /\ args[i + 1] \in Sources
                 THEN ScanArgs(args, i + 2, [acc EXCEPT !.source = args[i + 1]], has_source)
                 ELSE [acc EXCEPT !.error = TRUE]
            ELSE IF t \in {"-h", "--help"}
            THEN ScanArgs(args, i + 1, [acc EXCEPT !.help = TRUE], has_source)
            ELSE ScanArgs(args, i + 1, acc, has_source)

\* helper_funcs.parse_known_args_and_warn: the options record, or no record
\* (error = TRUE) after a usage error or a request for help
parse_known_args_and_warn(args, required, has_source) ==
    LET ns == ScanArgs(args, 1, NoArgs, has_source)
    IN  IF ns.error \/ (required /\ ns.coin = None) \/ ns.help
        THEN [NoArgs EXCEPT !.error = TRUE]
        ELSE ns

\* load without the insertion of "-c"
InsertCoinFlag_absent(other_args) == other_args

\* other_args.insert(0, "-c") when the first argument is positional
InsertCoinFlag(other_args) ==
    IF other_args # <<>> /\ ~IsDash(other_args[1])
    THEN <<"-c">> \o other_args
    ELSE other_args

---------------------------------------------------------------------------
(* Data providers.  env is what the provider does on this call: "ok" or    *)
(* "error" (network / parse failure).                                      *)

Env == { "ok", "error" }

\* the commands that call a provider
ProviderCommands ==
    { "load", "chart", "ta", "finbrain" } \cup GECKO_CHOICES \cup PAPRIKA_CHOICES
    \cup BINANCE_CHOICES

\* what the provider may do while this line is processed
EnvOf(an_input) ==
    IF Range(an_input.toks) \cap ProviderCommands # {} THEN Env ELSE { "ok" }

\* coinpaprika_view.load: the coin id, or None
paprika_load(other_args, env) ==
    LET args == InsertCoinFlag(other_args)
        ns == parse_known_args_and_warn(args, "-h" \notin Range(other_args), FALSE)
    IN  IF ns.error THEN None
        ELSE IF env = "ok" /\ ns.coin \in KnownCoins THEN ns.coin
        ELSE None

\* binance_model.select_binance_coin: (coin, currency, df)
select_binance_coin(coin, env) ==
    IF env = "ok" /\ coin \in KnownCoins
    THEN << coin, "USDT", DF_DATA >>
    ELSE << None, None, None >>

NoneTuple == << None, None, None, None >>

\* cryptocurrency.load: always a tuple of four
load(other_args, env) ==
    LET args == InsertCoinFlag(other_args)
        ns == parse_known_args_and_warn(args, "-h" \notin Range(other_args), TRUE)
    IN  IF ns.error THEN NoneTuple
        ELSE IF ns.source = "cg"
        THEN IF env = "ok" /\ ns.coin \in KnownCoins
             THEN << ns.coin, None, None, "cg" >>
             ELSE NoneTuple          \* KeyError, or any other exception
        ELSE IF ns.source = "bin"
        THEN LET b == select_binance_coin(ns.coin, env)
             IN  << b[1], b[2], b[3], "bin" >>
        ELSE << paprika_load(args, env), None, None, "cp" >>

\* load resolved a coin: the first element of the tuple is a coin
Resolved(t) == Truthy(t[1])


---------------------------------------------------------------------------
(* CryptoController                                                        *)

\* CryptoController.__init__
NewCryptoController ==
    [ current_coin |-> "", current_df |-> DF_EMPTY,
      current_currency |-> None, source |-> "" ]

\* What a handler did: the controller after it, the value it returned or
\* the exception it raised, what it printed, the sub-menu it entered (the
\* handler then returns only when that sub-menu has returned), and the tuple
\* load() gave it.
Result(self, ret, out, sub) ==
    [ self |-> self, ret |-> ret, out |-> out, sub |-> sub, loaded |-> <<>> ]

NO_COIN == "No coin selected. Use 'load' to load the coin you want to look at."

NOT_EXIST == "The command selected doesn't exist"

\* self.current_coin, self.source = load(other_args): unpacking a tuple that
\* has not exactly two elements raises ValueError before anything is
\* assigned; only TypeError (load returning None) is caught
call_load(self, other_args, env) ==
    LET t == load(other_args, env)
    IN  IF Len(t) = 2
        THEN [ Result([self EXCEPT !.current_coin = t[1], !.source = t[2]],
                      None, "Loaded coin", "none") EXCEPT !.loaded = t ]
        ELSE [ Result(self, "ValueError", "", "none") EXCEPT !.loaded = t ]

\* call_chart taking the provider of the view it calls as the session's
call_chart_retag(self, other_args, env) ==
    IF Truthy(self.current_coin)
    THEN Result([self EXCEPT !.source = "cp"], None,
                IF env = "ok" THEN "chart" ELSE "chart failed", "none")
    ELSE Result(self, None, NO_COIN, "none")

\* call_chart keeping the quote currency it was asked for
call_chart_caching(self, other_args, env) ==
    IF Truthy(self.current_coin)
    THEN Result([self EXCEPT !.current_currency = "usd"], None,
                IF env = "ok" THEN "chart" ELSE "chart failed", "none")
    ELSE Result(self, None, NO_COIN, "none")

\* the chart views take the coin and the arguments, print or plot, return None
call_chart(self, other_args, env) ==
    IF Truthy(self.current_coin)
    THEN Result(self, None, IF env = "ok" THEN "chart" ELSE "chart failed", "none")
    ELSE Result(self, None, NO_COIN, "none")

\* --vs of the ta parsers, default usd
QuoteOf(other_args) ==
    IF Len(other_args) = 2 /\ other_args[1] = "--vs" THEN other_args[2] ELSE "usd"

\* pycoingecko_view.ta and coinpaprika_view.ta: (df, currency), or
\* (None, None) on a usage error, an empty result or an exception
view_ta(other_args, env) ==
    IF env = "ok" THEN << DF_DATA, QuoteOf(other_args) >> ELSE << None, None >>

\* binance_model.ta: (coin, currency, df)
binance_ta(coin, other_args, env) ==
    IF env = "ok" THEN << coin, "USDT", DF_DATA >> ELSE << coin, "", DF_EMPTY >>

\* call_ta up to the call of ta_controller.menu
call_ta(self, other_args, env) ==
    IF ~Truthy(self.current_coin) THEN Result(self, None, NO_COIN, "none")
    ELSE IF self.source \in {"cg", "cp"}
    THEN LET r == view_ta(other_args, env)
             s == [self EXCEPT !.current_df = r[1], !.current_currency = r[2]]
         IN  IF r[1] # None THEN Result(s, None, "", "ta")
             ELSE Result(s, None, "ta failed", "none")
    ELSE IF self.source = "bin"
    THEN LET r == binance_ta(self.current_coin, other_args, env)
             s == [self EXCEPT !.current_coin = r[1], !.current_currency = r[2],
                               !.current_df = r[3]]
         IN  IF r[2] # "" /\ r[3] # DF_EMPTY THEN Result(s, None, "", "ta")
             ELSE Result(s, None, "ta failed", "none")
    ELSE Result(self, None, "", "none")

\* call_ta returning whatever ta_controller.menu returned
call_ta_return_as_is(quit) == quit

\* call_ta after ta_controller.menu returned quit
call_ta_return(quit) == IF quit = "True" THEN "True" ELSE None

\* call_clear leaving the provider tag
call_clear_keeps_source(self) ==
    IF Truthy(self.current_coin)
    THEN Result([ current_coin |-> None, current_currency |-> None,
                  current_df |-> DF_EMPTY, source |-> self.source ],
                None, "Current coin was removed", "none")
    ELSE Result(self, None, NO_COIN, "none")

\* call_clear without the test of current_coin
call_clear_unguarded(self) ==
    Result([ current_coin |-> None, current_currency |-> None,
             current_df |-> DF_EMPTY, source |-> "" ],
           None, "Current coin was removed", "none")

call_clear(self) ==
    IF Truthy(self.current_coin)
    THEN Result([ current_coin |-> None, current_currency |-> None,
                  current_df |-> DF_EMPTY, source |-> "" ],
                None, "Current coin was removed", "none")
    ELSE Result(self, None, NO_COIN, "none")

\* return discovery_controller.menu() / overview_controller.menu()
call_disc(self) == Result(self, None, "", "disc")

call_ov(self) == Result(self, None, "", "ov")

\* call_dd without the test of current_coin
call_dd_unchecked(self) == Result(self, None, "", "dd")

\* return dd_controller.menu(self.current_coin, self.source)
call_dd(self) ==
    IF Truthy(self.current_coin) THEN Result(self, None, "", "dd")
    ELSE Result(self, None, NO_COIN, "none")

\* the handler calling the sub-menu without returning its value
call_sub_return_dropped(value) == None

\* call_disc, call_ov, call_dd after the sub-menu returned: its value, as is
call_sub_return(value) == value

\* q answering as quit does
call_q_as_quit(self) == Result(self, "True", "", "none")

call_q(self) == Result(self, "False", "", "none")

call_quit(self) == Result(self, "True", "", "none")

\* call_help building the controller anew to print its summary
call_help_resets(self) == Result(NewCryptoController, None, "help", "none")

call_help(self) == Result(self, None, "help", "none")

call_finbrain(self) == Result(self, None, "finbrain", "none")

\* getattr(self, "call_" + cmd, lambda: "Command not recognized!")(other_args):
\* the fallback takes no argument, so calling it raises TypeError
crypto_dispatch(self, cmd, other_args, env) ==
    CASE cmd = "help" -> call_help(self)
      [] cmd = "q" -> call_q(self)
      [] cmd = "quit" -> call_quit(self)
      [] cmd = "load" -> call_load(self, other_args, env)
      [] cmd = "chart" -> call_chart(self, other_args, env)
      [] cmd = "ta" -> call_ta(self, other_args, env)
      [] cmd = "clear" -> call_clear(self)
      [] cmd = "disc" -> call_disc(self)
      [] cmd = "ov" -> call_ov(self)
      [] cmd = "dd" -> call_dd(self)
      [] cmd = "finbrain" -> call_finbrain(self)
      [] OTHER -> Result(self, "TypeError", "", "none")

\* CryptoController.switch
crypto_switch(self, an_input, env) ==
    IF an_input.empty THEN Result(self, None, "", "none")
    ELSE
        LET p == parse_known_args(an_input.toks, CryptoCHOICES)
        IN  IF p.exit THEN Result(self, "SystemExit", "", "none")
            ELSE IF p.cmd = "?" THEN Result(self, None, "help", "none")
            ELSE IF p.cmd = "cls" THEN Result(self, None, "", "none")
            ELSE crypto_dispatch(self, p.cmd, p.other_args, env)


---------------------------------------------------------------------------
(* dd_controller.Controller                                                *)

ChoicesOf(source) ==
    CASE source = "cg" -> GECKO_CHOICES
      [] source = "cp" -> PAPRIKA_CHOICES
      [] source = "bin" -> BINANCE_CHOICES
      [] OTHER -> {}

\* Controller.__init__ not taking the coin it is given
NewController_default(coin, source) ==
    [ current_coin |-> None, current_currency |-> None,
      current_df |-> DF_EMPTY, source |-> source ]

\* Controller.__init__: the fields of the new controller
NewController(coin, source) ==
    [ current_coin |-> coin, current_currency |-> None,
      current_df |-> DF_EMPTY, source |-> source ]

\* Controller.__init__: self.CHOICES.extend(...) extends the list of the
\* class, which every later Controller shares (only membership in the list
\* is ever used, so it is kept as a set)
ExtendChoices(choices, source) == choices \cup ChoicesOf(source)

\* dd_controller.menu: source = source if source else "cg"
DdSource(source) == IF Truthy(source) THEN source ELSE "cg"

\* the handlers that first test self.current_coin
DdCoinCommands ==
    { "info", "market", "web", "social", "dev", "ath", "atl", "score", "bc",
      "ps", "basic", "mkt", "ex", "events", "twitter" }

\* the handler of an accepted token; a token without a call_<token> method
\* reaches the fallback lambda, which raises TypeError when called
dd_dispatch(self, cmd, other_args, env) ==
    IF cmd = "help" THEN Result(self, None, "help", "none")
    ELSE IF cmd = "q" THEN Result(self, "False", "Moving back to (crypto) menu", "none")
    ELSE IF cmd = "quit" THEN Result(self, "True", "", "none")
    ELSE IF cmd \in DdCoinCommands
    THEN IF Truthy(self.current_coin)
         THEN Result(self, None, IF env = "ok" THEN cmd ELSE "view failed", "none")
         ELSE Result(self, None, NO_COIN, "none")
    ELSE IF cmd \in DdHandlers
    THEN Result(self, None, IF env = "ok" THEN cmd ELSE "view failed", "none")
    ELSE Result(self, "TypeError", "", "none")

\* Controller.switch
dd_switch(self, choices, an_input, env) ==
    IF an_input.empty THEN Result(self, None, "", "none")
    ELSE
        LET p == parse_known_args(an_input.toks, choices)
        IN  IF p.exit THEN Result(self, "SystemExit", "", "none")
            ELSE IF p.cmd = "?" THEN Result(self, None, "help", "none")
            ELSE IF p.cmd = "cls" THEN Result(self, None, "", "none")
            ELSE dd_dispatch(self, p.cmd, p.other_args, env)

---------------------------------------------------------------------------
(* coinpaprika_view: the table commands twitter, events, ex, mkt          *)

TableCommands == { "twitter", "events", "ex", "mkt" }

\* values of the column the table is sorted by
SortKeys == { 1, 2 }

\* the tables a provider can return: one sort key per row, in the order the
\* provider lists the rows; a row is named by its position in this order
Tables == UNION { [1..n -> SortKeys] : n \in 0..MaxRows }

\* the flags of a table command: top = 0 stands for "-t not given"
TableArgs == [ top : 0..(MaxRows + 1), descend : BOOLEAN ]

\* default of -t/--top
DefaultTop(cmd) == IF cmd = "mkt" THEN 20 ELSE 10

\* argparse action="store_false": the flag, when given, stores False
store_false(default, given) == IF given THEN FALSE ELSE default

\* the namespace the command's parser returns
ns_parser(cmd, args) ==
    [ top |-> IF args.top = 0 THEN DefaultTop(cmd) ELSE args.top,
      descend |-> store_false(FALSE, args.descend) ]

\* the orders of the rows 1..Len(df) with the keys in order
Sorted(df, ascending) ==
    { s \in [1..Len(df) -> 1..Len(df)] :
        /\ \A i, j \in 1..Len(df) : i # j => s[i] # s[j]
        /\ \A i, j \in 1..Len(df) :
              i < j => IF ascending THEN df[s[i]] <= df[s[j]]
                       ELSE df[s[i]] >= df[s[j]] }

\* DataFrame.sort_values(by, ascending) with the default kind="quicksort",
\* which is not a stable sort: rows with equal keys come in any order
sort_values(df, ascending) == Sorted(df, ascending)

\* DataFrame.head(n) taking one row more
head_inclusive(s, n) == SubSeq(s, 1, IF n + 1 < Len(s) THEN n + 1 ELSE Len(s))

\* DataFrame.head(n), n > 0
head(s, n) == SubSeq(s, 1, IF n < Len(s) THEN n ELSE Len(s))

\* the row sequences the command can print for a non-empty table
Rendered(df, cmd, args) ==
    LET ns == ns_parser(cmd, args)
    IN  { head(s, ns.top) : s \in sort_values(df, ns.descend) }

\* no table command called yet
NoView ==
    [ df |-> <<>>, done |-> FALSE, cmd |-> "",
      args |-> [ top |-> 0, descend |-> FALSE ], out |-> <<>> ]

\* twitter / events / exchanges / markets called by the dd menu's handler:
\* parse the flags, fetch the table, report an empty one, else sort it and
\* print its first rows
Render ==
    /\ ~view.done
    /\ \E cmd \in TableCommands, args \in TableArgs :
        IF view.df = <<>>
        THEN view' = [ view EXCEPT !.done = TRUE, !.cmd = cmd, !.args = args ]
        ELSE \E rows \in Rendered(view.df, cmd, args) :
                view' = [ view EXCEPT !.done = TRUE, !.cmd = cmd, !.args = args,
                                      !.out = rows ]
    /\ UNCHANGED << stack, crypto_controller, controller, CHOICES, pending, outcome,
                    last, expected, inputs, calls >>

---------------------------------------------------------------------------
(* The menu loops                                                          *)

NoPending == [ menu |-> "none", value |-> None ]

NoLast ==
    [ menu |-> "none", parent |-> "none", empty |-> FALSE, cmd |-> "",
      args |-> <<>>, known |-> FALSE, ret |-> None, out |-> "", loaded |-> <<>> ]

Top == IF stack = <<>> THEN "caller" ELSE stack[Len(stack)]

Pop(s) == SubSeq(s, 1, Len(s) - 1)

Exceptions == { "SystemExit", "ValueError", "TypeError" }

\* the loop testing the truth of process_input instead of "is not None"
MenuStep_truthy(ret) ==
    IF ret \in { "SystemExit", None, "False" } THEN "continue"
    ELSE IF ret \in Exceptions THEN "raise"
    ELSE "return"

\* the loop without its except clause
MenuStep_uncaught(ret) ==
    IF ret = None THEN "continue"
    ELSE IF ret \in Exceptions THEN "raise"
    ELSE "return"

\* try: process_input = switch(an_input); if process_input is not None:
\* return process_input; except SystemExit: print(...); continue.
\* "continue", "return" or "raise"
MenuStep(ret) ==
    IF ret = "SystemExit" \/ ret = None THEN "continue"
    ELSE IF ret \in Exceptions THEN "raise"
    ELSE "return"

\* the first positional token of the line, "" if there is none
CommandOf(an_input) ==
    LET k == FirstPositional(an_input.toks, 1)
    IN  IF k = 0 THEN "" ELSE an_input.toks[k]

\* the tokens of the line other than the command
ArgsOf(an_input) ==
    LET k == FirstPositional(an_input.toks, 1)
    IN  IF k = 0 THEN an_input.toks ELSE Without(an_input.toks, k)

\* the menu that called the active one
Parent == IF Len(stack) > 1 THEN stack[Len(stack) - 1] ELSE "caller"

\* what the line did: the menu that read it and the menu that called that
\* one, whether the line was empty, the command token and the other tokens,
\* whether the menu's
\* table holds it, what switch returned or raised ("entered": the handler is inside a sub-menu), what was
\* printed, and the tuple load() returned
Observed(menu, an_input, choices, r) ==
    [ menu |-> menu, parent |-> Parent, empty |-> an_input.empty,
      cmd |-> CommandOf(an_input),
      args |-> ArgsOf(an_input),
      known |-> CommandOf(an_input) \in choices,
      ret |-> IF r.sub # "none" THEN "entered" ELSE r.ret,
      out |-> IF r.ret = "SystemExit" THEN NOT_EXIST ELSE r.out,
      loaded |-> r.loaded ]

\* the (coin, source) the session should hold after this line
Expect(prev, cmd, r) ==
    IF cmd = "load" /\ Len(r.loaded) = 4 /\ Resolved(r.loaded)
    THEN << r.loaded[1], r.loaded[4] >>
    ELSE IF cmd = "clear" THEN << "", "" >>
    ELSE prev

\* crypto_controller.menu: one pass of the loop, up to the return of switch
\* or to the sub-menu the handler enters
CryptoInput ==
    /\ Top = "crypto"
    /\ pending = NoPending
    /\ inputs < MaxInputs
    /\ \E an_input \in Lines : \E env \in EnvOf(an_input) :
        LET r == crypto_switch(crypto_controller, an_input, env)
            step == MenuStep(r.ret)
        IN  /\ crypto_controller' = r.self
            /\ last' = Observed("crypto", an_input, CryptoCHOICES, r)
            /\ expected' = Expect(expected, last'.cmd, r)
            /\ IF r.sub # "none"
               THEN /\ stack' = Append(stack, r.sub)
                    /\ outcome' = outcome
                    /\ IF r.sub = "dd"
                       THEN /\ controller' =
                                 NewController(r.self.current_coin, DdSource(r.self.source))
                            /\ CHOICES' = ExtendChoices(CHOICES, DdSource(r.self.source))
                       ELSE UNCHANGED << controller, CHOICES >>
               ELSE /\ UNCHANGED << controller, CHOICES >>
                    /\ IF step = "continue"
                       THEN UNCHANGED << stack, outcome >>
                       ELSE stack' = <<>> /\ outcome' = r.ret
    /\ inputs' = inputs + 1
    /\ UNCHANGED << pending, calls, view >>

\* the sub-menu has returned into call_disc / call_ov / call_dd / call_ta,
\* whose value switch returns to the loop of crypto_controller.menu
CryptoResume ==
    /\ Top = "crypto"
    /\ pending # NoPending
    /\ LET process_input ==
               IF pending.menu = "ta" THEN call_ta_return(pending.value)
               ELSE call_sub_return(pending.value)
       IN  /\ IF MenuStep(process_input) = "continue"
              THEN UNCHANGED << stack, outcome >>
              ELSE stack' = <<>> /\ outcome' = process_input
    /\ pending' = NoPending
    /\ UNCHANGED << crypto_controller, controller, CHOICES, last, expected, inputs,
                    calls, view >>

\* dd_controller.menu: one pass of the loop
DdInput ==
    /\ Top = "dd"
    /\ inputs < MaxInputs
    /\ \E an_input \in Lines : \E env \in EnvOf(an_input) :
        LET r == dd_switch(controller, CHOICES, an_input, env)
            step == MenuStep(r.ret)
        IN  /\ controller' = r.self
            /\ last' = Observed("dd", an_input, CHOICES, r)
            /\ IF step = "continue"
               THEN UNCHANGED << stack, outcome, pending >>
               ELSE IF step = "return" /\ Len(stack) > 1
               THEN /\ stack' = Pop(stack)
                    /\ pending' = [ menu |-> "dd", value |-> r.ret ]
                    /\ outcome' = outcome
               ELSE /\ stack' = <<>>
                    /\ outcome' = r.ret
                    /\ pending' = NoPending
    /\ inputs' = inputs + 1
    /\ UNCHANGED << crypto_controller, CHOICES, expected, calls, view >>

\* discovery_controller.menu, overview_controller.menu, ta_controller.menu:
\* a line is read and the menu continues (None), is left with q (False) or
\* the program is quit (True)
SubMenuInput ==
    /\ Top \in { "disc", "ov", "ta" }
    /\ inputs < MaxInputs
    /\ \E cmd \in { "help", "q", "quit" } :
        LET ret == IF cmd = "q" THEN "False" ELSE IF cmd = "quit" THEN "True" ELSE None
        IN  /\ last' = [ NoLast EXCEPT !.menu = Top, !.parent = Parent, !.cmd = cmd,
                                       !.known = TRUE,
                                       !.ret = ret ]
            /\ IF ret = None
               THEN UNCHANGED << stack, pending >>
               ELSE /\ stack' = Pop(stack)
                    /\ pending' = [ menu |-> Top, value |-> ret ]
    /\ inputs' = inputs + 1
    /\ UNCHANGED << crypto_controller, controller, CHOICES, outcome, expected, calls,
                    view >>

\* menu() running on a controller kept from the call before
CallCryptoMenu_keeping ==
    /\ stack = <<>>
    /\ outcome \in { "idle", "False" }
    /\ calls < MaxCalls
    /\ stack' = << "crypto" >>
    /\ outcome' = "running"
    /\ last' = NoLast
    /\ expected' = << crypto_controller.current_coin, crypto_controller.source >>
    /\ calls' = calls + 1
    /\ UNCHANGED << crypto_controller, controller, CHOICES, pending, inputs, view >>

\* the caller (the terminal's main menu) calls crypto_controller.menu(), at
\* the start or again after a menu came back with False
CallCryptoMenu ==
    /\ stack = <<>>
    /\ outcome \in { "idle", "False" }
    /\ calls < MaxCalls
    /\ stack' = << "crypto" >>
    /\ crypto_controller' = NewCryptoController
    /\ outcome' = "running"
    /\ last' = NoLast
    /\ expected' = << "", "" >>
    /\ calls' = calls + 1
    /\ UNCHANGED << controller, CHOICES, pending, inputs, view >>

\* dd_controller.menu(coin, source) called with any arguments
CallDdMenu ==
    /\ stack = <<>>
    /\ outcome \in { "idle", "False" }
    /\ calls < MaxCalls
    /\ \E coin \in KnownCoins \cup { None }, source \in Sources \cup { None } :
        /\ controller' = NewController(coin, DdSource(source))
        /\ CHOICES' = ExtendChoices(CHOICES, DdSource(source))
    /\ stack' = << "dd" >>
    /\ outcome' = "running"
    /\ last' = NoLast
    /\ calls' = calls + 1
    /\ UNCHANGED << crypto_controller, pending, expected, inputs, view >>

Init ==
    /\ stack = <<>>
    /\ crypto_controller = NewCryptoController
    /\ controller = NewController(None, None)
    /\ CHOICES = BASE_CHOICES
    /\ pending = NoPending
    /\ outcome = "idle"
    /\ last = NoLast
    /\ expected = << "", "" >>
    /\ inputs = 0
    /\ calls = 0
    /\ view = NoView

Next ==
    \/ CallCryptoMenu
    \/ CallDdMenu
    \/ CryptoInput
    \/ CryptoResume
    \/ DdInput
    \/ SubMenuInput

Spec == Init /\ [][Next]_vars


\* The crypto menu holding a Coin Reference: the controller as the two
\* assignments of call_load are written to leave it, for every coin and
\* provider.  The handlers that need a loaded coin (chart, ta, dd, clear)
\* are exercised from these states.
InitLoaded ==
    /\ stack = << "crypto" >>
    /\ \E coin \in KnownCoins, source \in Sources :
        /\ crypto_controller =
               [NewCryptoController EXCEPT !.current_coin = coin, !.source = source]
        /\ expected = << coin, source >>
    /\ controller = NewController(None, None)
    /\ CHOICES = BASE_CHOICES
    /\ pending = NoPending
    /\ outcome = "running"
    /\ last = NoLast
    /\ inputs = 0
    /\ calls = 1
    /\ view = NoView

SpecLoaded == InitLoaded /\ [][Next]_vars


\* A table command applied to every table a provider can return, with every
\* combination of its flags.
InitRender ==
    /\ stack = <<>>
    /\ crypto_controller = NewCryptoController
    /\ controller = NewController(None, None)
    /\ CHOICES = BASE_CHOICES
    /\ pending = NoPending
    /\ outcome = "idle"
    /\ last = NoLast
    /\ expected = << "", "" >>
    /\ inputs = 0
    /\ calls = 0
    /\ \E df \in Tables : view = [ NoView EXCEPT !.df = df ]

SpecRender == InitRender /\ [][Render]_vars


---------------------------------------------------------------------------
(* Properties                                                              *)

\* the step is a pass of the crypto menu's loop
CryptoStep == Top = "crypto" /\ pending = NoPending /\ inputs' = inputs + 1

\* the last line was a load in the crypto menu and load() resolved a coin
LoadResolved ==
    /\ last.menu = "crypto"
    /\ last.cmd = "load"
    /\ last.loaded # <<>>
    /\ Resolved(last.loaded)

Empty(self) ==
    /\ ~Truthy(self.current_coin)
    /\ self.source = ""
    /\ self.current_currency = None
    /\ self.current_df = DF_EMPTY

\* C1: a sub-menu entered from the crypto menu and left with q (it returned
\* False) leaves the crypto menu active, reading the next command.
C1_SubMenuQuitKeepsCrypto ==
    (last.parent = "crypto" /\ last.ret = "False" /\ pending = NoPending)
        => (outcome = "running" /\ Top = "crypto")

\* C2: after a load whose resolution succeeded the controller holds the
\* resolved coin and the provider tag, call_load returned None and the menu
\* goes on.
C2_LoadHoldsCoin ==
    LoadResolved =>
        /\ crypto_controller.current_coin = last.loaded[1]
        /\ crypto_controller.source = last.loaded[Len(last.loaded)]
        /\ last.ret = None
        /\ outcome = "running"

\* C3: no command and no outcome of its handler ends menu() with an
\* exception: a menu call is running or has returned False or True.
C3_NothingFatal == outcome \in { "idle", "running", "False", "True" }

\* an unrecognized command token was entered at the crypto or the dd menu
UnknownToken ==
    /\ last.menu \in { "crypto", "dd" }
    /\ last.cmd # ""
    /\ ~last.known

\* C4 as stated: for an unrecognized token switch returns "continue" (None)
\* and does not raise.
C4_SwitchReturnsContinue == UnknownToken => last.ret = None

\* C4 amended: for an unrecognized token switch raises SystemExit (the
\* argument parser's), the menu loop catches it, prints its message and stays
\* at the same level; menu() does not end.
C4_UnknownTokenLoops ==
    UnknownToken =>
        /\ last.ret = "SystemExit"
        /\ last.out = NOT_EXIST
        /\ outcome = "running"
        /\ Top = last.menu

C4_Witness ==
    /\ UnknownToken
    /\ last.menu = "dd"
    /\ last.cmd \in CryptoCHOICES
    /\ inputs > 1

\* C5: once a load has resolved a coin, clear removes it and leaves the
\* session state empty, whatever the provider.
C5_LoadThenClearEmpty ==
    LoadResolved =>
        /\ outcome = "running"
        /\ call_clear(crypto_controller).out = "Current coin was removed"
        /\ Empty(call_clear(crypto_controller).self)

C7_ReflectsLastLoad ==
    last.menu = "crypto" =>
        IF expected = << "", "" >>
        THEN ~Truthy(crypto_controller.current_coin) /\ crypto_controller.source = ""
        ELSE /\ crypto_controller.current_coin = expected[1]
             /\ crypto_controller.source = expected[2]

\* C8: a load that resolves no coin leaves the session state as it was and
\* the menu goes on.
C8_FailedLoadLeavesState ==
    [][(CryptoStep /\ last'.cmd = "load" /\ ~Resolved(last'.loaded))
           => (crypto_controller' = crypto_controller /\ outcome' = "running")]_vars

\* C9: a menu() call returns True only when quit was the last line, entered
\* at the crypto menu or in a menu nested in it that returned True for it.
C9_TrueOnlyByQuit ==
    outcome = "True" =>
        /\ last.cmd = "quit"
        /\ last.ret = "True"
        /\ last.menu \in { "crypto", "dd", "ov", "disc", "ta" }

C9_Witness ==
    /\ outcome = "True"
    /\ last.menu = "dd"
    /\ last.parent = "crypto"

\* C10: quit entered in the dd menu under the crypto menu makes the dd menu
\* return True, and the crypto menu then returns True as its next step,
\* reading no input line.
C10_QuitPropagates ==
    /\ [](( /\ last.menu = "dd"
            /\ last.parent = "crypto"
            /\ last.cmd = "quit" )
          => \/ pending = [ menu |-> "dd", value |-> "True" ]
             \/ outcome = "True" /\ stack = <<>>)
    /\ [][pending = [ menu |-> "dd", value |-> "True" ]
            => (outcome' = "True" /\ stack' = <<>> /\ inputs' = inputs)]_vars

C10_Witness ==
    /\ pending = [ menu |-> "dd", value |-> "True" ]
    /\ stack = << "crypto" >>
    /\ last.cmd = "quit"


SwitchReturned ==
    /\ last.menu \in { "crypto", "dd" }
    /\ last.ret \in { None, "False", "True" }

\* C12: switch returns None to continue, False for q and True for quit; the
\* menu loop goes on reading at the same level when the value is None and
\* returns the value, as it is, when it is not.
C12_ThreeValuedProtocol ==
    SwitchReturned =>
        /\ (last.known /\ last.cmd = "q") => last.ret = "False"
        /\ (last.known /\ last.cmd = "quit") => last.ret = "True"
        /\ last.ret = None => (Top = last.menu /\ outcome = "running")
        /\ last.ret # None =>
              /\ last.menu \notin Range(stack)
              /\ IF last.parent = "caller"
                 THEN stack = <<>> /\ outcome = last.ret
                 ELSE \/ pending = [ menu |-> last.menu, value |-> last.ret ]
                      \/ pending = NoPending /\ outcome = last.ret

C12_Witness ==
    /\ SwitchReturned
    /\ last.menu = "dd"
    /\ last.parent = "caller"
    /\ last.ret = "False"
    /\ outcome = "False"


\* the step reads an empty line, ?, help or cls in the crypto or the dd menu
NotStatefulStep ==
    /\ inputs' = inputs + 1
    /\ last'.menu \in { "crypto", "dd" }
    /\ \/ last'.empty
       \/ last'.known /\ last'.cmd \in { "?", "help", "cls" }

\* C16: an empty line, ?, help and cls return None in both menus, keep the
\* menu where it is and leave both controllers as they were; ? and help
\* print the command summary.
C16_NotStateful ==
    [][NotStatefulStep
        => /\ last'.ret = None
           /\ stack' = stack
           /\ outcome' = outcome
           /\ outcome' = "running"
           /\ crypto_controller' = crypto_controller
           /\ controller' = controller
           /\ (last'.known /\ last'.cmd \in { "?", "help" }) => last'.out = "help"]_vars

C16_Witness ==
    /\ last.menu = "crypto"
    /\ last.known
    /\ last.cmd = "help"
    /\ last.out = "help"
    /\ Top = "crypto"
    /\ Truthy(crypto_controller.current_coin)

\* C17: whenever the dd menu is active, the tokens its parser accepts are the
\* base commands and the commands of the controller's provider, however the
\* menu was entered before.
C17_ChoicesFixedPerSource ==
    Top = "dd" => CHOICES = BASE_CHOICES \cup ChoicesOf(controller.source)

\* the step is a call of crypto_controller.menu()
MenuEntered == stack = <<>> /\ stack' = << "crypto" >>

TaReturns == Top = "crypto" /\ pending.menu = "ta" /\ pending' = NoPending

\* C20: after the technical-analysis menu comes back, the crypto menu returns
\* True when that menu returned True and otherwise goes on reading.
C20_TaExitsOnlyOnTrue ==
    [][TaReturns
        => IF pending.value = "True"
           THEN stack' = <<>> /\ outcome' = "True"
           ELSE stack' = stack /\ outcome' = "running"]_vars

C20_Witness ==
    /\ last.menu = "ta"
    /\ last.ret = "False"
    /\ pending = NoPending
    /\ Top = "crypto"
    /\ outcome = "running"


\* a table command has printed the rows of a non-empty table
Printed == view.done /\ view.df # <<>>

Reverse(s) == [ i \in 1..Len(s) |-> s[Len(s) + 1 - i] ]

UniqueKeys(df) == \A i, j \in 1..Len(df) : i # j => df[i] # df[j]

\* the flags of the printed table with --descend the other way
Toggled == [ view.args EXCEPT !.descend = ~view.args.descend ]

\* C13: for a non-empty table with a unique sort key, printed whole, the rows
\* printed with --descend and the rows printed without it are the reverse of
\* each other.
C13_DescendReverses ==
    ( /\ Printed
      /\ UniqueKeys(view.df)
      /\ ns_parser(view.cmd, view.args).top >= Len(view.df) )
    => \A other \in Rendered(view.df, view.cmd, Toggled) : view.out = Reverse(other)

\* the rows printed are rows of the table, each at most once
RowsOfTable ==
    /\ \A i \in 1..Len(view.out) : view.out[i] \in 1..Len(view.df)
    /\ \A i, j \in 1..Len(view.out) : i # j => view.out[i] # view.out[j]

\* C14: a table command prints at most `top` rows, and prints every row of
\* the table when `top` is at least the number of rows.
C14_TopLimits ==
    Printed =>
        LET top == ns_parser(view.cmd, view.args).top
        IN  /\ Len(view.out) <= top
            /\ RowsOfTable
            /\ top >= Len(view.df) => Len(view.out) = Len(view.df)

C14_Witness ==
    /\ Printed
    /\ view.cmd = "events"
    /\ view.args.top = 2
    /\ Len(view.df) = 3
    /\ Len(view.out) = 2

\* the printed rows are the first rows of the whole table in sorted order
PrefixOfSorted ==
    \E s \in Sorted(view.df, ns_parser(view.cmd, view.args).descend) :
        /\ Len(view.out) <= Len(s)
        /\ view.out = SubSeq(s, 1, Len(view.out))

\* C15: the rows printed are the first `top` rows of the whole sorted table,
\* and rows with equal sort keys are printed in the order the table had them.
C15_LimitAfterStableSort ==
    Printed =>
        /\ PrefixOfSorted
        /\ Len(view.out) =
              IF ns_parser(view.cmd, view.args).top < Len(view.df)
              THEN ns_parser(view.cmd, view.args).top ELSE Len(view.df)
        /\ \A i, j \in 1..Len(view.out) :
              (i < j /\ view.df[view.out[i]] = view.df[view.out[j]])
                  => view.out[i] < view.out[j]


\* the step is chart, ta or dd read by the crypto menu while no coin is held
NoCoinStep ==
    /\ CryptoStep
    /\ ~Truthy(crypto_controller.current_coin)
    /\ last'.cmd \in { "chart", "ta", "dd" }

\* C21: with no coin held, chart, ta and dd print "No coin selected", do not
\* reach a provider or a sub-menu, return None and leave the state as it was.
C21_NoCoinNoEffect ==
    [][NoCoinStep
        => /\ last'.out = NO_COIN
           /\ last'.ret = None
           /\ stack' = stack
           /\ pending' = NoPending
           /\ outcome' = "running"
           /\ crypto_controller' = crypto_controller
           /\ controller' = controller]_vars

\* dd typed after clear removed the coin
C21_Witness ==
    /\ last.menu = "crypto"
    /\ last.cmd = "dd"
    /\ last.out = NO_COIN
    /\ Top = "crypto"
    /\ crypto_controller.current_coin = None

\* C22: a token the menu's parser accepts is dispatched to a handler: switch
\* does not raise TypeError from the fallback of getattr.
C22_AcceptedTokenHasHandler ==
    (last.menu \in { "crypto", "dd" } /\ last.known) => last.ret # "TypeError"

DdReturns == Top = "crypto" /\ pending.menu = "dd" /\ pending' = NoPending

\* C24: a line read by the dd menu changes neither the dd controller's coin
\* nor its provider tag; entering the dd menu hands it the crypto
\* controller's coin and tag, and entering and leaving it leave the crypto
\* controller as it was.
C24_DdFixedContext ==
    /\ [][(Top = "dd" /\ inputs' = inputs + 1)
            => /\ controller'.current_coin = controller.current_coin
               /\ controller'.source = controller.source
               /\ crypto_controller' = crypto_controller]_vars
    /\ [][(CryptoStep /\ last'.cmd = "dd" /\ last'.ret = "entered")
            => /\ controller'.current_coin = crypto_controller.current_coin
               /\ controller'.source = crypto_controller.source
               /\ crypto_controller' = crypto_controller]_vars
    /\ [][DdReturns => crypto_controller' = crypto_controller]_vars

\* a view command read by the dd menu entered from the crypto menu
C24_Witness ==
    /\ last.menu = "dd"
    /\ last.parent = "crypto"
    /\ last.known
    /\ last.cmd \in DdCoinCommands
    /\ Top = "dd"
    /\ controller.current_coin \in KnownCoins
    /\ controller.current_coin = crypto_controller.current_coin

\* C25: clear with no coin held prints "No coin selected", returns None and
\* leaves the state as it was; a second clear leaves what the first left.
C25_ClearIdempotent ==
    /\ [][(CryptoStep /\ ~Truthy(crypto_controller.current_coin) /\ last'.cmd = "clear")
            => /\ last'.out = NO_COIN
               /\ last'.ret = None
               /\ stack' = stack
               /\ outcome' = "running"
               /\ crypto_controller' = crypto_controller]_vars
    /\ [][(CryptoStep /\ last.menu = "crypto" /\ last.cmd = "clear"
                      /\ last'.cmd = "clear")
            => crypto_controller' = crypto_controller]_vars

\* clear read again after a clear that removed the coin
C25_Witness ==
    /\ last.menu = "crypto"
    /\ last.cmd = "clear"
    /\ last.out = NO_COIN
    /\ inputs >= 2
    /\ crypto_controller.current_coin = None
    /\ Top = "crypto"

\* the last line was load with a leading positional argument
PositionalLoad ==
    /\ last.menu = "crypto"
    /\ last.cmd = "load"
    /\ last.known
    /\ last.args # <<>>
    /\ ~IsDash(last.args[1])

\* the namespace load's parser returns for the arguments
LoadNamespace(other_args) ==
    parse_known_args_and_warn(InsertCoinFlag(other_args),
                              "-h" \notin Range(other_args), TRUE)

\* C26: load X <rest> parses to the same coin and source as load -c X <rest>
\* and returns the same tuple, whatever the provider does; without --source
\* the source is cg.
C26_PositionalIsCoinFlag ==
    PositionalLoad =>
        LET flagged == << "-c" >> \o last.args
        IN  /\ LoadNamespace(last.args) = LoadNamespace(flagged)
            /\ \A env \in Env : load(last.args, env) = load(flagged, env)
            /\ \E env \in Env : last.loaded = load(flagged, env)
            /\ ( /\ "--source" \notin Range(last.args)
                 /\ ~LoadNamespace(last.args).error )
               => /\ LoadNamespace(last.args).source = "cg"
                  /\ Resolved(last.loaded) => last.loaded[4] = "cg"

\* load btc resolved the coin from cg
C26_Witness ==
    /\ PositionalLoad
    /\ last.args = << "btc" >>
    /\ last.loaded = << "btc", None, None, "cg" >>


====
